---------------------------- MODULE Spec2Model ----------------------------
(***************************************************************************)
(* A model of main.py, the fitness tracker module: the dataclasses         *)
(* InfoMessage, Training, Running, SportsWalking and Swimming, the         *)
(* function read_package, the function main and the driver loop under      *)
(* `if __name__ == '__main__'`.                                            *)
(*                                                                         *)
(* Numbers.  Python evaluates the formulas in binary floating point.  The  *)
(* model evaluates the same expressions, in the same order and with the    *)
(* same coefficients, in exact rational arithmetic: a number is a record   *)
(* [neg, num, den] whose numerator and denominator are naturals of         *)
(* arbitrary size (sequences of base-10000 limbs, least significant        *)
(* first), because the intermediate values of the walking formula do not   *)
(* fit a 32-bit integer.  The rounding error of the floating-point         *)
(* operations (a few units in the 16th digit) is the one thing abstracted. *)
(* Rationals are not reduced; REq compares values.                         *)
(*                                                                         *)
(* Inputs.  Every duration and height drawn below is positive: the data    *)
(* model states duration > 0 as a precondition of every record, and the    *)
(* code divides by duration and by height without a check.                 *)
(***************************************************************************)
EXTENDS Integers, Sequences, FiniteSets

----------------------------------------------------------------------------
(* Naturals of arbitrary size.                                             *)

\* the limb base: a representation choice, any base whose square fits an int
Base == 100 * 100

Limb(a, k) == IF k <= Len(a) THEN a[k] ELSE 0

Rest(a) == IF a = <<>> THEN <<>> ELSE Tail(a)

RECURSIVE BTrim(_)
BTrim(a) ==
    IF a = <<>> THEN <<>>
    ELSE IF a[Len(a)] = 0 THEN BTrim(SubSeq(a, 1, Len(a) - 1)) ELSE a

RECURSIVE BOfNat(_)
BOfNat(n) == IF n = 0 THEN <<>> ELSE <<n % Base>> \o BOfNat(n \div Base)

RECURSIVE BToNat(_)
BToNat(a) == IF a = <<>> THEN 0 ELSE Head(a) + Base * BToNat(Tail(a))

RECURSIVE BAddC(_, _, _)
BAddC(a, b, c) ==
    IF a = <<>> /\ b = <<>> THEN (IF c = 0 THEN <<>> ELSE <<c>>)
    ELSE LET s == Limb(a, 1) + Limb(b, 1) + c
         IN  <<s % Base>> \o BAddC(Rest(a), Rest(b), s \div Base)

BAdd(a, b) == BAddC(a, b, 0)

RECURSIVE BSubB(_, _, _)
BSubB(a, b, br) ==
    IF a = <<>> THEN <<>>
    ELSE LET d == a[1] - Limb(b, 1) - br
         IN  IF d < 0 THEN <<d + Base>> \o BSubB(Tail(a), Rest(b), 1)
                      ELSE <<d>> \o BSubB(Tail(a), Rest(b), 0)

\* a - b for a >= b
BSub(a, b) == BTrim(BSubB(a, b, 0))

RECURSIVE BCmpAt(_, _, _)
BCmpAt(a, b, k) ==
    IF k = 0 THEN 0
    ELSE IF a[k] < b[k] THEN -1
    ELSE IF a[k] > b[k] THEN 1
    ELSE BCmpAt(a, b, k - 1)

\* -1, 0, 1 as a < b, a = b, a > b
BCmp(a, b) ==
    IF Len(a) < Len(b) THEN -1
    ELSE IF Len(a) > Len(b) THEN 1
    ELSE BCmpAt(a, b, Len(a))

RECURSIVE BMulS(_, _, _)
BMulS(a, k, c) ==
    IF a = <<>> THEN (IF c = 0 THEN <<>> ELSE <<c>>)
    ELSE LET p == a[1] * k + c
         IN  <<p % Base>> \o BMulS(Tail(a), k, p \div Base)

RECURSIVE BMul(_, _)
BMul(a, b) ==
    IF a = <<>> \/ b = <<>> THEN <<>>
    ELSE BTrim(BAdd(BMulS(a, b[1], 0), <<0>> \o BMul(a, Tail(b))))

RECURSIVE BQDigit(_, _, _, _)
BQDigit(r, b, lo, hi) ==
    IF lo = hi THEN lo
    ELSE LET mid == (lo + hi + 1) \div 2
         IN  IF BCmp(BTrim(BMulS(b, mid, 0)), r) <= 0
             THEN BQDigit(r, b, mid, hi)
             ELSE BQDigit(r, b, lo, mid - 1)

RECURSIVE BDivAt(_, _, _, _)
BDivAt(a, b, k, r) ==
    IF k = 0 THEN <<<<>>, r>>
    ELSE LET cur  == BTrim(<<a[k]>> \o r)
             q    == BQDigit(cur, b, 0, Base - 1)
             rem  == BSub(cur, BMulS(b, q, 0))
             rest == BDivAt(a, b, k - 1, rem)
         IN  <<Append(rest[1], q), rest[2]>>

\* <<quotient, remainder>> of a by b, b > 0
BDivMod(a, b) ==
    LET qr == BDivAt(a, b, Len(a), <<>>) IN <<BTrim(qr[1]), qr[2]>>

----------------------------------------------------------------------------
(* Signed rationals: the values of Python's int and float expressions.     *)

Abs(n) == IF n < 0 THEN -n ELSE n

\* the rational n / d of two integers, d > 0
R(n, d) == [neg |-> n < 0, num |-> BOfNat(Abs(n)), den |-> BOfNat(d)]

RInt(n) == R(n, 1)

RIsZero(x) == x.num = <<>>

RMul(x, y) ==
    LET n == BMul(x.num, y.num)
    IN  [neg |-> (n # <<>>) /\ (x.neg # y.neg), num |-> n,
         den |-> BMul(x.den, y.den)]

\* x / y, y nonzero
RDiv(x, y) ==
    LET n == BMul(x.num, y.den)
    IN  [neg |-> (n # <<>>) /\ (x.neg # y.neg), num |-> n,
         den |-> BMul(x.den, y.num)]

RAdd(x, y) ==
    LET a == BMul(x.num, y.den)
        b == BMul(y.num, x.den)
        d == BMul(x.den, y.den)
    IN  IF x.neg = y.neg
        THEN [neg |-> x.neg /\ BAdd(a, b) # <<>>, num |-> BAdd(a, b), den |-> d]
        ELSE IF BCmp(a, b) >= 0
             THEN [neg |-> x.neg /\ BSub(a, b) # <<>>, num |-> BSub(a, b),
                   den |-> d]
             ELSE [neg |-> y.neg, num |-> BSub(b, a), den |-> d]

RNeg(x) == [x EXCEPT !.neg = (~x.neg) /\ x.num # <<>>]

\* x ** 2
RSq(x) == RMul(x, x)

REq(x, y) ==
    /\ x.neg = y.neg
    /\ BMul(x.num, y.den) = BMul(y.num, x.den)

RNonNeg(x) == ~x.neg

\* |x - y| <= t
RWithin(x, y, t) ==
    LET d == RAdd(x, RNeg(y))
    IN  BCmp(BMul(d.num, t.den), BMul(t.num, d.den)) <= 0


\* format(x, '.3f'): the sign and the thousandths of x rounded to nearest,
\* ties to even ("-0.000" is neg with milli = 0).  Python rounds the exact
\* value of the double, the model the exact rational: the two can differ
\* only where the rational lies on a tie, which no input drawn below does.
Fmt3(x) ==
    LET qr    == BDivMod(BMul(x.num, BOfNat(1000)), x.den)
        twice == BCmp(BAdd(qr[2], qr[2]), x.den)
        up    == twice > 0 \/ (twice = 0 /\ Limb(qr[1], 1) % 2 = 1)
    IN  [neg |-> x.neg,
         milli |-> BToNat(IF up THEN BAdd(qr[1], <<1>>) ELSE qr[1])]

----------------------------------------------------------------------------
(* Python values.                                                          *)

PyNone == [cls |-> "NoneType"]

Raise(e) == [exc |-> e]

IsRaise(v) == "exc" \in DOMAIN v

----------------------------------------------------------------------------
(* The dataclasses.  A record carries its class in cls and its fields, as  *)
(* the integers they were constructed with.                                *)

\* the positional parameters of the generated __init__: the fields of the
\* base class, then the class's own, in declaration order
Fields(cls) ==
    CASE cls = "Training"      -> <<"action", "duration", "weight">>
      [] cls = "Running"       -> <<"action", "duration", "weight">>
      [] cls = "SportsWalking" -> <<"action", "duration", "weight", "height">>
      [] cls = "Swimming"      -> <<"action", "duration", "weight",
                                    "length_pool", "count_pool">>

\* a constructor that takes what it is given: missing fields are 0, extra
\* arguments are dropped
Construct_lenient(cls, data) ==
    [f \in {"cls"} \cup {Fields(cls)[k] : k \in 1..Len(Fields(cls))} |->
        IF f = "cls" THEN cls
        ELSE LET k == CHOOSE j \in 1..Len(Fields(cls)) : Fields(cls)[j] = f
             IN  IF k <= Len(data) THEN data[k] ELSE 0]

\* cls(*data)
Construct(cls, data) ==
    IF Len(data) # Len(Fields(cls)) THEN Raise("TypeError")
    ELSE [f \in {"cls"} \cup {Fields(cls)[k] : k \in 1..Len(data)} |->
             IF f = "cls" THEN cls
             ELSE data[CHOOSE k \in 1..Len(data) : Fields(cls)[k] = f]]

\* Swimming without its own LEN_STEP
LEN_STEP_not_overridden(cls) == R(65, 100)

\* class attributes, looked up through the instance
LEN_STEP(cls) == IF cls = "Swimming" THEN R(138, 100) ELSE R(65, 100)

M_IN_KM == 1000

Running_MIN == 60

SportsWalking_MIN == 60

CALORIES_MEAN_SPEED_MULTIPLIER == 18

CALORIES_MEAN_SPEED_SHIFT == R(179, 100)

WEIGHT_MULTIPLIER == R(35, 1000)

AVG_MULTIPLIER == R(29, 1000)

CONVERSION_ms == R(278, 1000)

CONVERSION_m == 100

OFFSET_AVG_SPEED == R(11, 10)

SPEED_MULTIPLIER == 2

Training_get_distance(self) ==
    RDiv(RMul(RInt(self.action), LEN_STEP(self.cls)), RInt(M_IN_KM))

Training_get_mean_speed(self) ==
    RDiv(Training_get_distance(self), RInt(self.duration))

\* the body is `pass`: the call returns None.  The try/except around the
\* def guards the definition, not the call, and nothing raises in it.
Training_get_spent_calories(self) == PyNone

\* the shift subtracted instead of added
Running_calories_shift_subtracted(self, mean_speed) ==
    RMul(RDiv(RMul(RAdd(RMul(RInt(18), mean_speed), RNeg(R(179, 100))),
                   RInt(self.weight)),
              RInt(1000)),
         RMul(RInt(self.duration), RInt(60)))

Running_calories(self, mean_speed) ==
    RMul(RDiv(RMul(RAdd(RMul(RInt(CALORIES_MEAN_SPEED_MULTIPLIER), mean_speed),
                        CALORIES_MEAN_SPEED_SHIFT),
                   RInt(self.weight)),
              RInt(M_IN_KM)),
         RMul(RInt(self.duration), RInt(Running_MIN)))

Running_get_spent_calories(self) ==
    Running_calories(self, Training_get_mean_speed(self))

SportsWalking_calories(self, mean_speed) ==
    RMul(RAdd(RMul(WEIGHT_MULTIPLIER, RInt(self.weight)),
              RMul(RMul(RDiv(RSq(RMul(mean_speed, CONVERSION_ms)),
                             RDiv(RInt(self.height), RInt(CONVERSION_m))),
                        AVG_MULTIPLIER),
                   RInt(self.weight))),
         RMul(RInt(self.duration), RInt(SportsWalking_MIN)))

SportsWalking_get_spent_calories(self) ==
    SportsWalking_calories(self, Training_get_mean_speed(self))

Swimming_get_distance(self) ==
    RDiv(RMul(RInt(self.action), LEN_STEP(self.cls)), RInt(M_IN_KM))

\* Swimming without its own get_mean_speed: distance / duration
Swimming_get_mean_speed_from_distance(self) ==
    RDiv(RDiv(RMul(RInt(self.action), R(138, 100)), RInt(1000)),
         RInt(self.duration))

Swimming_get_mean_speed(self) ==
    RDiv(RDiv(RMul(RInt(self.length_pool), RInt(self.count_pool)),
              RInt(M_IN_KM)),
         RInt(self.duration))

Swimming_calories(self, mean_speed) ==
    RMul(RMul(RMul(RAdd(mean_speed, OFFSET_AVG_SPEED),
                   RInt(SPEED_MULTIPLIER)),
              RInt(self.weight)),
         RInt(self.duration))

\* the calories of Swimming from the base class's mean speed
Swimming_get_spent_calories_base_speed(self) ==
    RMul(RMul(RMul(RAdd(RDiv(RDiv(RMul(RInt(self.action), R(138, 100)),
                                  RInt(1000)),
                             RInt(self.duration)),
                        R(11, 10)),
                   RInt(2)),
              RInt(self.weight)),
         RInt(self.duration))

Swimming_get_spent_calories(self) ==
    Swimming_calories(self, Swimming_get_mean_speed(self))

\* self.get_distance(), self.get_mean_speed(), self.get_spent_calories():
\* the method of the instance's class, else the base class's
get_distance(self) ==
    IF self.cls = "Swimming" THEN Swimming_get_distance(self)
    ELSE Training_get_distance(self)

get_mean_speed(self) ==
    IF self.cls = "Swimming" THEN Swimming_get_mean_speed(self)
    ELSE Training_get_mean_speed(self)

get_spent_calories(self) ==
    CASE self.cls = "Running"       -> Running_get_spent_calories(self)
      [] self.cls = "SportsWalking" -> SportsWalking_get_spent_calories(self)
      [] self.cls = "Swimming"      -> Swimming_get_spent_calories(self)
      [] OTHER                      -> Training_get_spent_calories(self)

\* Training.show_training_info(self); self may be None, which has a type
\* name and no attribute duration
show_training_info(self) ==
    IF self = PyNone THEN Raise("AttributeError")
    ELSE [training_type |-> self.cls,
          duration      |-> RInt(self.duration),
          distance      |-> get_distance(self),
          speed         |-> get_mean_speed(self),
          calories      |-> get_spent_calories(self)]

\* InfoMessage.get_message: the template with each number as '{:.3f}';
\* None does not take that format
get_message(info) ==
    IF info.calories = PyNone THEN Raise("TypeError")
    ELSE [kind          |-> "report",
          training_type |-> info.training_type,
          duration      |-> Fmt3(info.duration),
          distance      |-> Fmt3(info.distance),
          speed         |-> Fmt3(info.speed),
          calories      |-> Fmt3(info.calories)]

\* what main(training) prints, or the exception it raises
main(training) ==
    LET info == show_training_info(training)
    IN  IF IsRaise(info) THEN info ELSE get_message(info)

\* the line print('Тренировка не найдена!') writes
Diagnostic == [kind |-> "diagnostic", text |-> "Trenirovka ne naydena!"]

\* a table with one key more
dict_training_with_xyz ==
    [c \in {"SWM", "RUN", "WLK", "XYZ"} |->
        CASE c = "SWM" -> "Swimming"
          [] c = "RUN" -> "Running"
          [] c = "WLK" -> "SportsWalking"
          [] c = "XYZ" -> "Running"]

dict_training ==
    [c \in {"SWM", "RUN", "WLK"} |->
        CASE c = "SWM" -> "Swimming"
          [] c = "RUN" -> "Running"
          [] c = "WLK" -> "SportsWalking"]

----------------------------------------------------------------------------
(* The state.                                                              *)

VARIABLES
    packages,   \* the list the driver loop iterates over
    idx,        \* the position of the loop in packages
    pc,         \* the statement the driver is about to execute
    training,   \* the global the loop assigns read_package's result to
    out,        \* standard output, one element per printed line
    err,        \* the exception that ended the run, or "none"
    ctor,       \* how many times a dataclass constructor was called
    rec,        \* a record a caller holds and calls methods on
    made,       \* the fields rec was constructed with
    last,       \* the method called last on rec
    ret,        \* what that call returned or raised
    seen        \* per method, what its first call on rec returned or raised

vars == <<packages, idx, pc, training, out, err, ctor, rec, made, last, ret,
          seen>>

driverVars == <<packages, idx, pc, training, err, ctor>>

callVars == <<rec, made, last, ret, seen>>

\* the name `training` before the loop's first assignment
Unbound == [cls |-> "unbound"]

NoRet == [kind |-> "noret"]

Methods == {"get_distance", "get_mean_speed", "get_spent_calories",
            "show_training_info", "main"}

----------------------------------------------------------------------------
(* Bounds and input pools.                                                 *)

MaxPackages == 3

MaxPrints == 2

Package(code, data) == [code |-> code, data |-> data]

\* the list of the source
SamplePackages ==
    << Package("SWM", <<720, 1, 80, 25, 40>>),
       Package("RUN", <<15000, 1, 75>>),
       Package("WLK", <<9000, 1, 75, 180>>) >>

\* the entries of the source's list, entries with a code that is not a key
\* of dict_training, and entries with too few or too many numbers
PackagePool ==
    { SamplePackages[k] : k \in 1..3 } \cup
    { Package("XYZ", <<1, 2, 3>>),
      Package("XYZ", <<720, 1, 80, 25, 40>>),
      Package("RUN", <<15000, 1>>),
      Package("WLK", <<9000, 1, 75, 180, 7>>),
      Package("SWM", <<720, 1, 80, 25>>) }

PackageLists == UNION { [1..n -> PackagePool] : n \in 0..MaxPackages }

\* the records a caller constructs, the base class's included: the three of
\* the source's list and neighbours of them (another count of actions, a
\* negative one, zero, another duration, another pool length)
TrainingData == { <<15000, 1, 75>> }

RunningData == { <<15000, 1, 75>>, <<-20, 1, 75>>, <<15000, 2, 75>> }

WalkingData == { <<9000, 1, 75, 180>>, <<0, 2, 75, 180>> }

SwimmingData ==
    { <<720, 1, 80, 25, 40>>, <<1000, 1, 80, 25, 40>>,
      <<720, 2, 80, 25, 40>>, <<720, 1, 80, 50, 40>> }

Records ==
    { Construct("Training", d) : d \in TrainingData } \cup
    { Construct("Running", d) : d \in RunningData } \cup
    { Construct("SportsWalking", d) : d \in WalkingData } \cup
    { Construct("Swimming", d) : d \in SwimmingData }

----------------------------------------------------------------------------
(* The driver: `for workout_type, data in packages`, read_package, main.   *)

Init ==
    /\ packages \in PackageLists
    /\ idx = 1
    /\ pc = "for"
    /\ training = Unbound
    /\ out = <<>>
    /\ err = "none"
    /\ ctor = 0
    /\ rec = PyNone
    /\ made = PyNone
    /\ last = "none"
    /\ ret = NoRet
    /\ seen = [m \in Methods |-> NoRet]

\* the for statement takes the next entry, or ends the program
ForNext ==
    /\ pc = "for"
    /\ pc' = IF idx <= Len(packages) THEN "read_package" ELSE "done"
    /\ UNCHANGED <<packages, idx, training, out, err, ctor>>
    /\ UNCHANGED callVars

\* training = read_package(workout_type, data)
ReadPackage ==
    /\ pc = "read_package"
    /\ LET workout_type == packages[idx].code
           data         == packages[idx].data
       IN  IF workout_type \in DOMAIN dict_training
           THEN LET info_packages == Construct(dict_training[workout_type], data)
                IN  /\ ctor' = ctor + 1
                    /\ IF IsRaise(info_packages)
                       THEN /\ pc' = "crashed"
                            /\ err' = info_packages.exc
                            /\ UNCHANGED training
                       ELSE /\ pc' = "main"
                            /\ training' = info_packages
                            /\ UNCHANGED err
                    /\ UNCHANGED out
           ELSE /\ out' = Append(out, Diagnostic)
                /\ training' = PyNone
                /\ pc' = "main"
                /\ UNCHANGED <<err, ctor>>
    /\ UNCHANGED <<packages, idx>>
    /\ UNCHANGED callVars

\* a main that writes its line before the lines already written
Main_prepending ==
    /\ pc = "main"
    /\ LET line == main(training)
       IN  IF IsRaise(line)
           THEN /\ pc' = "crashed"
                /\ err' = line.exc
                /\ UNCHANGED <<out, idx>>
           ELSE /\ out' = <<line>> \o out
                /\ idx' = idx + 1
                /\ pc' = "for"
                /\ UNCHANGED err
    /\ UNCHANGED <<packages, training, ctor>>
    /\ UNCHANGED callVars

\* main(training)
Main ==
    /\ pc = "main"
    /\ LET line == main(training)
       IN  IF IsRaise(line)
           THEN /\ pc' = "crashed"
                /\ err' = line.exc
                /\ UNCHANGED <<out, idx>>
           ELSE /\ out' = Append(out, line)
                /\ idx' = idx + 1
                /\ pc' = "for"
                /\ UNCHANGED err
    /\ UNCHANGED <<packages, training, ctor>>
    /\ UNCHANGED callVars

Next == ForNext \/ ReadPackage \/ Main

Spec == Init /\ [][Next]_vars

----------------------------------------------------------------------------
(* The module imported: a caller constructs a record and calls its         *)
(* methods, and main on it, in any order and any number of times.          *)

InitCalls ==
    /\ packages = <<>>
    /\ idx = 1
    /\ pc = "calls"
    /\ training = Unbound
    /\ out = <<>>
    /\ err = "none"
    /\ ctor = 1
    /\ rec \in Records
    /\ made = rec
    /\ last = "none"
    /\ ret = NoRet
    /\ seen = [m \in Methods |-> NoRet]

Returned(m, v) ==
    /\ last' = m
    /\ ret' = v
    /\ seen' = IF seen[m] = NoRet THEN [seen EXCEPT ![m] = v] ELSE seen

\* a get_distance that converts the count of actions in place
Call_get_distance_mutating ==
    /\ pc = "calls"
    /\ Returned("get_distance", get_distance(rec))
    /\ rec' = [rec EXCEPT !.action = 0]
    /\ UNCHANGED <<made, out>>
    /\ UNCHANGED driverVars

Call_get_distance ==
    /\ pc = "calls"
    /\ Returned("get_distance", get_distance(rec))
    /\ UNCHANGED <<rec, made, out>>
    /\ UNCHANGED driverVars

Call_get_mean_speed ==
    /\ pc = "calls"
    /\ Returned("get_mean_speed", get_mean_speed(rec))
    /\ UNCHANGED <<rec, made, out>>
    /\ UNCHANGED driverVars

Call_get_spent_calories ==
    /\ pc = "calls"
    /\ Returned("get_spent_calories", get_spent_calories(rec))
    /\ UNCHANGED <<rec, made, out>>
    /\ UNCHANGED driverVars

Call_show_training_info ==
    /\ pc = "calls"
    /\ Returned("show_training_info", show_training_info(rec))
    /\ UNCHANGED <<rec, made, out>>
    /\ UNCHANGED driverVars

\* main(rec): prints the message and returns None, or raises
Call_main ==
    /\ pc = "calls"
    /\ LET line == main(rec)
       IN  IF IsRaise(line)
           THEN /\ Returned("main", line)
                /\ UNCHANGED out
           ELSE /\ Len(out) < MaxPrints
                /\ out' = Append(out, line)
                /\ Returned("main", PyNone)
    /\ UNCHANGED <<rec, made>>
    /\ UNCHANGED driverVars

NextCalls ==
    \/ Call_get_distance
    \/ Call_get_mean_speed
    \/ Call_get_spent_calories
    \/ Call_show_training_info
    \/ Call_main

SpecCalls == InitCalls /\ [][NextCalls]_vars

\* the module run as a script or imported
InitAll == Init \/ InitCalls

NextAll == Next \/ NextCalls

SpecAll == InitAll /\ [][NextAll]_vars

----------------------------------------------------------------------------
(* What the properties below are stated with: the codes, classes and field *)
(* counts as the interface documents them.                                 *)

KnownCodes == {"SWM", "RUN", "WLK"}

Known(p) == p.code \in KnownCodes

FieldCount(code) ==
    CASE code = "RUN" -> 3
      [] code = "WLK" -> 4
      [] code = "SWM" -> 5

ClassOf(code) ==
    CASE code = "RUN" -> "Running"
      [] code = "WLK" -> "SportsWalking"
      [] code = "SWM" -> "Swimming"

WellFormed(p) == Known(p) /\ Len(p.data) = FieldCount(p.code)

RecordOf(p) == Construct(ClassOf(p.code), p.data)

\* the report line of one entry, processed alone
ReportOf(p) == get_message(show_training_info(RecordOf(p)))

\* no entry of the list has a known code and a wrong number of values
OnlyUnknownCodesAreWrong ==
    \A k \in 1..Len(packages) : Known(packages[k]) => WellFormed(packages[k])

AllWellFormed == \A k \in 1..Len(packages) : WellFormed(packages[k])

----------------------------------------------------------------------------
(* The driver loop.                                                        *)

\* C1: in a list whose only faulty entries are entries with an unknown code,
\* an unknown code prints the diagnostic and no report, the run does not
\* crash, it ends normally, and every entry with a known code gets its
\* report line.
C1_UnknownCodeIsSkipped ==
    OnlyUnknownCodesAreWrong =>
        /\ pc # "crashed"
        /\ pc = "done" =>
              /\ Len(out) = Len(packages)
              /\ \A k \in 1..Len(packages) :
                    out[k] = IF Known(packages[k]) THEN ReportOf(packages[k])
                             ELSE Diagnostic

\* C2: read_package with a code that is not SWM, RUN or WLK prints the
\* diagnostic, calls no constructor whatever the data list holds, raises
\* nothing and returns None.
C2_UnknownCodeReturnsNone ==
    [][(pc = "read_package" /\ ~Known(packages[idx])) =>
          /\ pc' = "main"
          /\ training' = PyNone
          /\ out' = Append(out, Diagnostic)
          /\ ctor' = ctor
          /\ err' = "none"]_vars

\* read_package has returned None for an unknown code that came with five
\* values, after an entry with a known code
C2_Witness ==
    /\ pc = "main"
    /\ idx > 1
    /\ ~Known(packages[idx])
    /\ Len(packages[idx].data) = 5
    /\ training = PyNone
    /\ out[Len(out)] = Diagnostic

\* C4: read_package with a known code and a data list that is shorter or
\* longer than the variant's field count fails in the constructor, and the
\* failure reaches the caller: no record is returned, none is left half
\* filled, and the diagnostic of an unknown code is not printed.
C4_WrongFieldCountRaises ==
    [][(/\ pc = "read_package"
        /\ Known(packages[idx])
        /\ Len(packages[idx].data) # FieldCount(packages[idx].code)) =>
          /\ pc' = "crashed"
          /\ err' = "TypeError"
          /\ training' = training
          /\ out' = out]_vars

\* the run has ended in the constructor, on a list that is too long, after
\* an entry that was reported
C4_Witness ==
    /\ pc = "crashed"
    /\ err = "TypeError"
    /\ idx > 1
    /\ Known(packages[idx])
    /\ Len(packages[idx].data) > FieldCount(packages[idx].code)
    /\ Len(out) = idx - 1

\* C7: for a list of well-formed entries the loop prints one report line
\* per entry, in the order of the list, the k-th line being the report of
\* the k-th entry, and an entry is read, computed and printed before the
\* next is taken.
C7_OneLinePerEntryInOrder ==
    AllWellFormed =>
        /\ pc \in {"for", "read_package", "main", "done"}
        /\ idx \in 1..(Len(packages) + 1)
        /\ Len(out) = idx - 1
        /\ \A k \in 1..Len(out) :
              /\ out[k] = ReportOf(packages[k])
              /\ out[k].training_type = ClassOf(packages[k].code)
        /\ pc \in {"read_package", "main"} => idx <= Len(packages)
        /\ pc = "main" => training = RecordOf(packages[idx])
        /\ pc = "done" => Len(out) = Len(packages)

\* the list of the source has been processed to its end
C7_Witness ==
    /\ pc = "done"
    /\ packages = SamplePackages
    /\ Len(out) = 3
    /\ out[1].training_type = "Swimming"
    /\ out[3].training_type = "SportsWalking"

----------------------------------------------------------------------------
(* The methods of a record.                                                *)

Called(m) == seen[m] # NoRet

Variants == {"Running", "SportsWalking", "Swimming"}

\* C3: get_spent_calories on a record of the base class Training, called
\* directly or through show_training_info, raises an "operation not
\* supported" error; it never returns a default such as None.
C3_BaseCaloriesNotSupported ==
    rec.cls = "Training" =>
        /\ Called("get_spent_calories") =>
              seen["get_spent_calories"] = Raise("NotImplementedError")
        /\ Called("show_training_info") =>
              seen["show_training_info"] = Raise("NotImplementedError")

RunSample == Construct("Running", <<15000, 1, 75>>)

\* (18 * 9.75 + 1.79) * 75 / 1000 * 60
RunSampleExpression ==
    RMul(RDiv(RMul(RAdd(RMul(RInt(18), R(975, 100)), R(179, 100)), RInt(75)),
              RInt(1000)),
         RInt(60))

\* C5, as stated: for ("RUN", [15000, 1, 75]) distance = 9.75, mean_speed =
\* 9.75 and calories = (18*9.75+1.79)*75/1000*60, which is 798.0075 to
\* within a hundredth.
C5_RunSampleAsStated ==
    rec = RunSample =>
        /\ Called("get_distance") => REq(seen["get_distance"], R(975, 100))
        /\ Called("get_mean_speed") => REq(seen["get_mean_speed"], R(975, 100))
        /\ Called("get_spent_calories") =>
              /\ REq(seen["get_spent_calories"], RunSampleExpression)
              /\ RWithin(seen["get_spent_calories"], R(7980075, 10000),
                         R(1, 100))

\* C5, amended: for ("RUN", [15000, 1, 75]) distance = 9.75, mean_speed =
\* 9.75 and calories = (18*9.75+1.79)*75/1000*60, which is 797.805.
C5_RunSample ==
    rec = RunSample =>
        /\ Called("get_distance") => REq(seen["get_distance"], R(975, 100))
        /\ Called("get_mean_speed") => REq(seen["get_mean_speed"], R(975, 100))
        /\ Called("get_spent_calories") =>
              /\ REq(seen["get_spent_calories"], RunSampleExpression)
              /\ REq(seen["get_spent_calories"], R(797805, 1000))

\* the three metrics of the sample have been computed
C5_Witness ==
    /\ rec = RunSample
    /\ Called("get_distance")
    /\ Called("get_mean_speed")
    /\ Called("get_spent_calories")
    /\ ~IsRaise(seen["get_spent_calories"])

\* counts of strokes a second Swimming record may have
TwinActions == {-20, 0, 720, 1000}

\* C6: the mean speed of a Swimming record is pool_length * pool_laps /
\* 1000 / duration, and a Swimming record that differs from it in
\* action_count alone has the same mean speed and another distance.
C6_SwimmingSpeedIgnoresStrokes ==
    (rec.cls = "Swimming" /\ Called("get_mean_speed")) =>
        /\ REq(seen["get_mean_speed"],
               R(rec.length_pool * rec.count_pool, 1000 * rec.duration))
        /\ \A a \in TwinActions \ {rec.action} :
              LET twin == [rec EXCEPT !.action = a]
              IN  /\ REq(get_mean_speed(twin), seen["get_mean_speed"])
                  /\ Called("get_distance") =>
                        ~REq(get_distance(twin), seen["get_distance"])

\* speed and distance of a Swimming record with strokes have been computed
C6_Witness ==
    /\ rec.cls = "Swimming"
    /\ rec.action = 1000
    /\ Called("get_mean_speed")
    /\ Called("get_distance")

\* C8: get_distance is action_count * 0.65 / 1000 for a Running and a
\* SportsWalking record and action_count * 1.38 / 1000 for a Swimming
\* record, and is not negative when action_count is not negative.
C8_DistanceByVariant ==
    (rec.cls \in Variants /\ Called("get_distance")) =>
        LET d == seen["get_distance"]
        IN  /\ rec.cls \in {"Running", "SportsWalking"} =>
                  REq(d, R(rec.action * 65, 100 * 1000))
            /\ rec.cls = "Swimming" => REq(d, R(rec.action * 138, 100 * 1000))
            /\ rec.action >= 0 => RNonNeg(d)

\* the distance of a Swimming record with strokes has been computed
C8_Witness ==
    /\ rec.cls = "Swimming"
    /\ rec.action > 0
    /\ Called("get_distance")
    /\ ~RIsZero(seen["get_distance"])

\* C9: no call changes a field of the record; a repeated call returns what
\* the first returned, and a repeated main prints the same line; in the
\* driver loop main leaves the record as it was constructed, and the line
\* of an entry is the line of that entry processed alone, whatever entries
\* came before it.
C9_RecordsAreNotMutated ==
    /\ rec = made
    /\ last # "none" => ret = seen[last]
    /\ pc = "calls" =>
          \A k \in 1..Len(out) :
              /\ out[k] = out[1]
              /\ Called("show_training_info") =>
                    out[k] = get_message(seen["show_training_info"])
    /\ (pc = "for" /\ idx > 1) => training = RecordOf(packages[idx - 1])
    /\ pc \in {"for", "read_package", "main", "done", "crashed"} =>
          \A k \in 1..Len(out) :
              out[k] = IF Known(packages[k]) THEN ReportOf(packages[k])
                       ELSE Diagnostic

\* every method has been called, main twice, the last call a repeated one
C9_Witness ==
    /\ pc = "calls"
    /\ \A m \in Methods : Called(m)
    /\ Len(out) = 2
    /\ last = "get_mean_speed"
    /\ rec.cls = "Swimming"

\* the calorie formula of the record's class at a given mean speed
CaloriesAt(self, mean_speed) ==
    CASE self.cls = "Running"       -> Running_calories(self, mean_speed)
      [] self.cls = "SportsWalking" -> SportsWalking_calories(self, mean_speed)
      [] self.cls = "Swimming"      -> Swimming_calories(self, mean_speed)

\* C10: the calories in the report are the variant's formula at the mean
\* speed in the report: that speed is the base class's distance / duration
\* for Running and SportsWalking and pool_length * pool_laps / 1000 /
\* duration for Swimming, and get_spent_calories called directly returns the
\* same calories.
C10_CaloriesUseReportedSpeed ==
    (rec.cls \in Variants /\ Called("show_training_info")) =>
        LET info == seen["show_training_info"]
        IN  /\ REq(info.calories, CaloriesAt(rec, info.speed))
            /\ rec.cls \in {"Running", "SportsWalking"} =>
                  REq(info.speed, R(rec.action * 65, 100 * 1000 * rec.duration))
            /\ rec.cls = "Swimming" =>
                  REq(info.speed, R(rec.length_pool * rec.count_pool,
                                    1000 * rec.duration))
            /\ Called("get_spent_calories") =>
                  REq(seen["get_spent_calories"], info.calories)
            /\ Called("get_mean_speed") =>
                  REq(seen["get_mean_speed"], info.speed)

\* a Swimming report whose speed is not its distance / duration
C10_Witness ==
    /\ rec.cls = "Swimming"
    /\ Called("show_training_info")
    /\ Called("get_spent_calories")
    /\ LET info == seen["show_training_info"]
       IN  ~REq(info.speed, RDiv(info.distance, info.duration))

=============================================================================
